---- MODULE Spec2Model ----
(***************************************************************************)
(* Employee attendance tracker (apl97/Registro-Empleados).                 *)
(*                                                                         *)
(* The model covers the daily dispatch job (services/emailService.js),     *)
(* the public redemption route (routes/tracking.js, the version with the   *)
(* rate limiter and the signed employee reference), the record deletion    *)
(* handlers (routes/records.js and its successor with manual record        *)
(* management) and the roster operations the dispatch and the redemption   *)
(* read.  The store is PostgreSQL: a pool.query() is one autocommitted     *)
(* statement, a client transaction runs READ COMMITTED, so its writes      *)
(* become visible at COMMIT and a row lock is held until COMMIT/ROLLBACK.  *)
(* Every `await` of a handler is one step of the model.                    *)
(***************************************************************************)
EXTENDS Integers, FiniteSets, Sequences, TLC

(***************************************************************************)
(* Bounds of the model.                                                    *)
(***************************************************************************)
NumAttempts == 2     \* invocations of sendDailyEmail
NumRequests == 2     \* GET /track/:token/:employeeRef requests
NumEmployees == 2    \* rows of employees
NumRecipients == 1   \* rows of email_recipients
MaxDay == 2          \* calendar days the clock runs through
MaxTicks == 2        \* retry delays the clock runs through within a day
MaxWage == 2         \* daily wages run through 1..MaxWage
NumLogins == 2       \* POST /login requests in flight at a time

Attempts == 1..NumAttempts
Requests == 1..NumRequests
EmployeeIds == 1..NumEmployees
RecipientIds == 1..NumRecipients
Wages == 1..MaxWage
Logins == 1..NumLogins

\* absent value of a nullable column or of a local not yet assigned
NULL == 0

(***************************************************************************)
(* Program constants.                                                      *)
(***************************************************************************)
MS_PER_DAY == 86400000
RATE_LIMIT_WINDOW == 60000
MAX_REQUESTS_PER_WINDOW == 30
LOCKOUT_THRESHOLD == 100
LOCKOUT_TIME == 900000
SIGNATURE_LENGTH == 16
MIN_SIGNED_REF_LENGTH == 32
MAX_RETRIES == 3
RETRY_DELAY_MS == 300000
MAX_ATTEMPTS == 5
\* LOCKOUT_TIME of routes/auth.js
LOGIN_LOCKOUT_TIME == 900000

\* the sendDailyEmail invocations of the cron job: one per sendWithRetry
\* call, MAX_RETRIES per cycle, after the NumAttempts invocations made by
\* other callers (POST /send-test-email)
Days == 1..MaxDay
Slot(d, k) == NumAttempts + (d - 1) * MAX_RETRIES + k
SchedulerAttempts == (NumAttempts + 1)..(NumAttempts + MaxDay * MAX_RETRIES)
AllAttempts == Attempts \cup SchedulerAttempts

\* result.message of sendDailyEmail
MSG_ALREADY == "Email already sent today"
MSG_NO_EMPLOYEES == "No active employees"
MSG_NO_RECIPIENTS == "No active recipients"
MSG_SENT == "Email sent"
MSG_ERROR == "error.message"
\* error.message of the rejection of sgMail.send without an API key
MSG_UNAUTHORIZED == "Unauthorized"

VARIABLES
  now,               \* Date.now(), milliseconds
  employees,         \* table employees: id -> [active, daily_wage]
  recipients,        \* table email_recipients: id -> [active]
  daily_emails,      \* table daily_emails, committed rows
  work_records,      \* table work_records, committed rows
  rowLock,           \* daily_emails row locks: token of the row -> holder
  mails,             \* messages accepted by sgMail.send
  attempt,           \* sendDailyEmail invocations
  req,               \* redemption requests
  del,               \* record deletion requests
  trackingAttempts,  \* tracking.js rate-limit map: ip -> record
  sched,             \* scheduler.js: the cron job's cycles, one per day
  mailConfigured,    \* process.env.SENDGRID_API_KEY is set
  loginAttempts,     \* auth.js rate-limit map: ip -> record
  login,             \* POST /login requests
  failedChecks       \* log of the failed credential checks, per address:
                     \* the window opened by the first failed attempt and
                     \* the credential checks that failed within it

loginVars == <<loginAttempts, login, failedChecks>>

vars == <<now, employees, recipients, daily_emails, work_records, rowLock,
          mails, attempt, req, del, trackingAttempts, sched, mailConfigured, loginVars>>

dbVars == <<employees, recipients, daily_emails, work_records>>

\* new Date().toISOString().split('T')[0]: the calendar day of `now`
Today == (now \div MS_PER_DAY) + 1

ActiveEmployees == {e \in EmployeeIds : employees[e].active}
ActiveRecipients == {r \in RecipientIds : recipients[r].active}

\* SELECT id FROM daily_emails WHERE sent_date = d
EmailsOfDay(d) == {row \in daily_emails : row.sent_date = d}

(***************************************************************************)
(* routes/tracking.js: tokens and employee references                      *)
(*                                                                         *)
(* A token string is a number: the tokens uuidv4() generated are           *)
(* the invocation numbers, UnissuedToken is a UUID-shaped string no dispatch       *)
(* generated, MalformedToken a string the UUID pattern rejects.            *)
(* An employeeRef string is a record: kind "dec" is a string of idLen      *)
(* decimal digits of value id; kind "b64" is the base64url text of         *)
(* idPart ":" signaturePart, idPart being idLen digits of value id and     *)
(* sig the signature part; kind "junk" is any other string.                *)
(***************************************************************************)
IssuedTokens == AllAttempts
UnissuedToken == NumAttempts + MaxDay * MAX_RETRIES + 1
MalformedToken == -1

RECURSIVE Digits(_)
\* length of n.toString()
Digits(n) == IF n < 10 THEN 1 ELSE 1 + Digits(n \div 10)

\* crypto.createHmac('sha256', secret).update(`${token}:${employeeId}`)
\* .digest('hex').substring(0, 16): distinct inputs give distinct signatures
Hmac(token, employeeId) == <<token, employeeId>>
ForgedSignature == <<MalformedToken, 0>>

\* number of characters of the base64url text of n bytes
Base64UrlLength(n) == (4 * n + 2) \div 3

RefLength(ref) ==
  CASE ref.kind = "dec" -> ref.idLen
    [] ref.kind = "b64" -> Base64UrlLength(ref.idLen + 1 + SIGNATURE_LENGTH)
    [] OTHER -> 1

\* /^[A-Za-z0-9_-]{32,}$/.test(ref)
SignedShape(ref) == ref.kind \in {"dec", "b64"} /\ RefLength(ref) >= MIN_SIGNED_REF_LENGTH

\* parseInt(ref, 10) > 0 && num.toString() === ref
LegacyShape(ref) == ref.kind = "dec" /\ ref.id > 0 /\ ref.idLen = Digits(ref.id)

isValidUUID(token) == token > 0

isValidEmployeeRef(ref) == SignedShape(ref) \/ LegacyShape(ref)

\* variant that returns the id part without comparing the signature
decodeEmployeeRef_NoVerify(ref, token) ==
  IF SignedShape(ref)
    THEN IF ref.kind = "b64" /\ ref.id > 0 THEN ref.id ELSE NULL
    ELSE IF LegacyShape(ref) THEN ref.id ELSE NULL

\* the employee id of the reference, NULL (null) if invalid or tampered;
\* the base64 text of a digit string decodes to no number
decodeEmployeeRef(ref, token) ==
  IF SignedShape(ref)
    THEN IF ref.kind = "b64" /\ ref.id > 0 /\ ref.sig = Hmac(token, ref.id)
           THEN ref.id
           ELSE NULL
    ELSE IF LegacyShape(ref) THEN ref.id ELSE NULL

LegacyRef(e) == [kind |-> "dec", id |-> e, idLen |-> Digits(e), sig |-> <<0, 0>>]
\* base64url(employeeId ":" truncatedHMAC(token ":" employeeId))
SignedRef(token, e) == [kind |-> "b64", id |-> e, idLen |-> Digits(e), sig |-> Hmac(token, e)]
\* the same with the id written with leading zeros, n digits in all
PaddedSignedRef(token, e, n) == [kind |-> "b64", id |-> e, idLen |-> n, sig |-> Hmac(token, e)]
NoRef == [kind |-> "junk", id |-> 0, idLen |-> 0, sig |-> <<0, 0>>]

(***************************************************************************)
(* sendDailyEmail                                                          *)
(***************************************************************************)
IdleAttempt ==
  [pc |-> "idle", today |-> NULL, emps |-> {}, to |-> {}, token |-> NULL,
   inserted |-> FALSE, sent |-> FALSE, result |-> ""]

\* uuidv4(): a token no other invocation generates
NewToken(a) == a

Finish(a, msg) ==
  [attempt[a] EXCEPT !.pc = "done", !.emps = {}, !.to = {}, !.result = msg]

\* redemption URL of one employee in the message: `${appUrl}/track/${token}/${emp.id}`
LinkOf(token, e) == [token |-> token, emp |-> e, ref |-> LegacyRef(e)]

\* variant of the check that lets the invocation go on although a row of
\* today is there
DispatchCheck_NoEarlyReturn(a) ==
  /\ attempt[a].pc = "idle"
  /\ attempt' = [attempt EXCEPT ![a] = [@ EXCEPT !.pc = "employees", !.today = Today]]
  /\ UNCHANGED <<now, dbVars, rowLock, mails, req, del, trackingAttempts, sched, mailConfigured, loginVars>>

\* lines 8-20: today, SELECT ... WHERE sent_date = today, early return
DispatchCheck(a) ==
  /\ attempt[a].pc = "idle"
  /\ IF EmailsOfDay(Today) # {}
       THEN attempt' = [attempt EXCEPT ![a] = [Finish(a, MSG_ALREADY) EXCEPT !.today = Today]]
       ELSE attempt' = [attempt EXCEPT ![a] = [@ EXCEPT !.pc = "employees", !.today = Today]]
  /\ UNCHANGED <<now, dbVars, rowLock, mails, req, del, trackingAttempts, sched, mailConfigured, loginVars>>

\* lines 22-30: SELECT ... FROM employees WHERE active = true
DispatchEmployees(a) ==
  /\ attempt[a].pc = "employees"
  /\ IF ActiveEmployees = {}
       THEN attempt' = [attempt EXCEPT ![a] = Finish(a, MSG_NO_EMPLOYEES)]
       ELSE attempt' = [attempt EXCEPT ![a] = [@ EXCEPT !.pc = "recipients", !.emps = ActiveEmployees]]
  /\ UNCHANGED <<now, dbVars, rowLock, mails, req, del, trackingAttempts, sched, mailConfigured, loginVars>>

\* lines 32-43: SELECT email FROM email_recipients WHERE active = true, uuidv4()
DispatchRecipients(a) ==
  /\ attempt[a].pc = "recipients"
  /\ IF ActiveRecipients = {}
       THEN attempt' = [attempt EXCEPT ![a] = Finish(a, MSG_NO_RECIPIENTS)]
       ELSE attempt' = [attempt EXCEPT ![a] = [@ EXCEPT !.pc = "insert", !.to = ActiveRecipients,
                                                        !.token = NewToken(a)]]
  /\ UNCHANGED <<now, dbVars, rowLock, mails, req, del, trackingAttempts, sched, mailConfigured, loginVars>>

\* variant that goes on to the send without storing the row
DispatchInsert_Skip(a) ==
  /\ attempt[a].pc = "insert"
  /\ attempt' = [attempt EXCEPT ![a] = [@ EXCEPT !.pc = "send"]]
  /\ UNCHANGED <<now, dbVars, rowLock, mails, req, del, trackingAttempts, sched, mailConfigured, loginVars>>

\* lines 45-49: INSERT INTO daily_emails (sent_date, token), autocommitted;
\* the table has no unique constraint on sent_date (database.js 78-98),
\* token is UNIQUE and used defaults to false
DispatchInsert(a) ==
  /\ attempt[a].pc = "insert"
  /\ \A row \in daily_emails : row.token # attempt[a].token
  /\ daily_emails' = daily_emails \cup
       {[sent_date |-> attempt[a].today, token |-> attempt[a].token,
         used |-> FALSE, used_by_employee_id |-> NULL]}
  /\ attempt' = [attempt EXCEPT ![a] = [@ EXCEPT !.pc = "send", !.inserted = TRUE]]
  /\ UNCHANGED <<now, employees, recipients, work_records, rowLock, mails, req, del,
                 trackingAttempts, sched, mailConfigured, loginVars>>

\* lines 5, 51-178: build the message, await sgMail.send(msg), success; the
\* provider accepts a message only from a client that has an API key
DispatchSend(a) ==
  /\ attempt[a].pc = "send"
  /\ mailConfigured
  /\ mails' = mails \cup
       {[by |-> a, date |-> attempt[a].today, token |-> attempt[a].token,
         to |-> attempt[a].to,
         links |-> {LinkOf(attempt[a].token, e) : e \in attempt[a].emps}]}
  /\ attempt' = [attempt EXCEPT ![a] = [Finish(a, MSG_SENT) EXCEPT !.sent = TRUE]]
  /\ UNCHANGED <<now, dbVars, rowLock, req, del, trackingAttempts, sched, mailConfigured, loginVars>>

\* lines 175, 180-183: sgMail.send rejects, the catch returns the failure;
\* nothing undoes the INSERT of line 46
DispatchSendFail(a) ==
  /\ attempt[a].pc = "send"
  /\ attempt' = [attempt EXCEPT ![a] =
       Finish(a, IF mailConfigured THEN MSG_ERROR ELSE MSG_UNAUTHORIZED)]
  /\ UNCHANGED <<now, dbVars, rowLock, mails, req, del, trackingAttempts, sched, mailConfigured, loginVars>>

\* lines 10-49, 180-183: a pool.query rejects (connectivity), same catch
DispatchQueryFail(a) ==
  /\ attempt[a].pc \in {"idle", "employees", "recipients", "insert"}
  /\ attempt' = [attempt EXCEPT ![a] =
       [Finish(a, MSG_ERROR) EXCEPT !.today = IF attempt[a].pc = "idle" THEN Today ELSE @]]
  /\ UNCHANGED <<now, dbVars, rowLock, mails, req, del, trackingAttempts, sched, mailConfigured, loginVars>>

(***************************************************************************)
(* services/scheduler.js: sendWithRetry and the cron job                   *)
(***************************************************************************)
\* a cycle of the cron job: attempt is the parameter of the running
\* sendWithRetry call, due the time its setTimeout fires, starts the times
\* at which the calls of the cycle were entered
IdleCycle == [pc |-> "idle", attempt |-> 0, due |-> 0, starts |-> <<>>]

\* message.includes(needle) for the messages sendDailyEmail returns and the
\* four needles of lines 20-23
Includes(message, needle) ==
  \/ message = MSG_ALREADY /\ needle = "already sent"
  \/ message = MSG_NO_EMPLOYEES /\ needle = "No active employees"
  \/ message = MSG_NO_RECIPIENTS /\ needle = "No active recipients"

\* variant of the test that misses the roster messages
NonRetriable_OnlyAlreadySent(message) == Includes(message, "already sent")

\* lines 20-23
NonRetriable(message) ==
  \/ Includes(message, "already sent")
  \/ Includes(message, "No active employees")
  \/ Includes(message, "No active recipients")
  \/ Includes(message, "not configured")

\* result.success of the value sendDailyEmail returned
Success(a) == attempt[a].sent

\* the invocation of sendDailyEmail the cycle of day d awaits
Awaited(d) == Slot(d, sched[d].attempt)
\* invocation a is the one a running sendWithRetry call awaits
Invoked(a) == \E d \in Days : sched[d].pc = "await" /\ Awaited(d) = a

\* lines 57-59: the cron expression matches, sendWithRetry(1)
CronFire(d) ==
  /\ Today = d
  /\ sched[d].pc = "idle"
  /\ sched' = [sched EXCEPT ![d] = [pc |-> "await", attempt |-> 1, due |-> 0,
                                    starts |-> <<now>>]]
  /\ UNCHANGED <<now, dbVars, rowLock, mails, attempt, req, del, trackingAttempts,
                 mailConfigured, loginVars>>

\* variant that schedules the next call after every failure
SchedResult_RetryAlways(d) ==
  /\ sched[d].pc = "await"
  /\ attempt[Awaited(d)].pc = "done"
  /\ sched' = [sched EXCEPT ![d] =
       IF Success(Awaited(d)) THEN [@ EXCEPT !.pc = "done"]
       ELSE IF sched[d].attempt < MAX_RETRIES
         THEN [@ EXCEPT !.pc = "timer", !.due = now + RETRY_DELAY_MS]
       ELSE [@ EXCEPT !.pc = "done"]]
  /\ UNCHANGED <<now, dbVars, rowLock, mails, attempt, req, del, trackingAttempts,
                 mailConfigured, loginVars>>

\* lines 12-34: sendDailyEmail has returned; return on success and on a
\* non-retriable message, else setTimeout while attempt < MAX_RETRIES.
\* sendDailyEmail catches every error itself, the catch of lines 35-44 is
\* never entered
SchedResult(d) ==
  /\ sched[d].pc = "await"
  /\ attempt[Awaited(d)].pc = "done"
  /\ sched' = [sched EXCEPT ![d] =
       IF Success(Awaited(d)) THEN [@ EXCEPT !.pc = "done"]
       ELSE IF NonRetriable(attempt[Awaited(d)].result) THEN [@ EXCEPT !.pc = "done"]
       ELSE IF sched[d].attempt < MAX_RETRIES
         THEN [@ EXCEPT !.pc = "timer", !.due = now + RETRY_DELAY_MS]
       ELSE [@ EXCEPT !.pc = "done"]]
  /\ UNCHANGED <<now, dbVars, rowLock, mails, attempt, req, del, trackingAttempts,
                 mailConfigured, loginVars>>

\* variant whose timer fires at once
TimerFire_NoDelay(d) ==
  /\ sched[d].pc = "timer"
  /\ sched' = [sched EXCEPT ![d] = [@ EXCEPT !.pc = "await", !.attempt = @ + 1,
                                             !.starts = Append(@, now)]]
  /\ UNCHANGED <<now, dbVars, rowLock, mails, attempt, req, del, trackingAttempts,
                 mailConfigured, loginVars>>

\* line 31: the timer set by setTimeout fires, sendWithRetry(attempt + 1)
TimerFire(d) ==
  /\ sched[d].pc = "timer"
  /\ now >= sched[d].due
  /\ sched' = [sched EXCEPT ![d] = [@ EXCEPT !.pc = "await", !.attempt = @ + 1,
                                             !.starts = Append(@, now)]]
  /\ UNCHANGED <<now, dbVars, rowLock, mails, attempt, req, del, trackingAttempts,
                 mailConfigured, loginVars>>

\* RETRY_DELAY_MS pass on the clock, at most MaxTicks times a day
Tick ==
  /\ now % MS_PER_DAY < MaxTicks * RETRY_DELAY_MS
  /\ now' = now + RETRY_DELAY_MS
  /\ UNCHANGED <<dbVars, rowLock, mails, attempt, req, del, trackingAttempts, sched,
                 mailConfigured, loginVars>>

(***************************************************************************)
(* Roster administration and the clock                                     *)
(***************************************************************************)
\* POST /employees/:id/deactivate: UPDATE employees SET active = false
DeactivateEmployee(e) ==
  /\ employees[e].active
  /\ employees' = [employees EXCEPT ![e].active = FALSE]
  /\ UNCHANGED <<now, recipients, daily_emails, work_records, rowLock, mails, attempt,
                 req, del, trackingAttempts, sched, mailConfigured, loginVars>>

\* variant that carries the new wage into the employee's stored records
UpdateEmployee_Cascade(e, daily_wage, active) ==
  /\ employees' = [employees EXCEPT ![e] = [active |-> active, daily_wage |-> daily_wage]]
  /\ work_records' = {IF w.employee_id = e THEN [w EXCEPT !.wage_amount = daily_wage] ELSE w :
                        w \in work_records}
  /\ UNCHANGED <<now, recipients, daily_emails, rowLock, mails, attempt,
                 req, del, trackingAttempts, sched, mailConfigured, loginVars>>

\* POST /employees/:id: UPDATE employees SET ..., daily_wage = $3, active = $4
UpdateEmployee(e, daily_wage, active) ==
  /\ employees' = [employees EXCEPT ![e] = [active |-> active, daily_wage |-> daily_wage]]
  /\ UNCHANGED <<now, recipients, daily_emails, work_records, rowLock, mails, attempt,
                 req, del, trackingAttempts, sched, mailConfigured, loginVars>>

\* POST /recipients/:id/toggle: UPDATE email_recipients SET active = NOT active
ToggleRecipient(r) ==
  /\ recipients' = [recipients EXCEPT ![r].active = ~@]
  /\ UNCHANGED <<now, employees, daily_emails, work_records, rowLock, mails, attempt,
                 req, del, trackingAttempts, sched, mailConfigured, loginVars>>

\* the clock passes midnight
NextDay ==
  /\ Today < MaxDay
  /\ now' = now + MS_PER_DAY
  /\ UNCHANGED <<dbVars, rowLock, mails, attempt, req, del, trackingAttempts, sched, mailConfigured, loginVars>>


(***************************************************************************)
(* routes/auth.js: the login rate limit and POST /login                    *)
(***************************************************************************)
LoginIps == {"10.0.0.1"}

\* loginAttempts.get(ip) === undefined
NoAttempts == [count |-> 0, firstAttempt |-> 0]

\* checkRateLimit(ip).allowed
checkRateLimit(rec, t) ==
  IF rec = NoAttempts THEN TRUE
  ELSE IF t - rec.firstAttempt > LOGIN_LOCKOUT_TIME THEN TRUE
  ELSE rec.count < MAX_ATTEMPTS

\* the entry of the address after checkRateLimit(ip): an old entry is deleted
AfterCheck(rec, t) ==
  IF rec # NoAttempts /\ t - rec.firstAttempt > LOGIN_LOCKOUT_TIME
    THEN NoAttempts ELSE rec

\* the entry of the address after recordFailedAttempt(ip)
recordFailedAttempt(rec, t) ==
  IF rec = NoAttempts THEN [count |-> 1, firstAttempt |-> t]
  ELSE [rec EXCEPT !.count = @ + 1]

\* the entry of the address after clearAttempts(ip)
clearAttempts(rec) == NoAttempts

\* what a request body can be, by the branch of the handler it takes
LoginKinds == {"missing", "bad-username", "unknown-user", "wrong-password", "valid"}

IdleLogin == [pc |-> "idle", ip |-> "", kind |-> "", outcome |-> ""]

\* no window of failed attempts is open
NoWindow == [open |-> FALSE, start |-> 0, checks |-> 0]

\* the log after a failed attempt at time t; check tells whether the attempt
\* was a credential check (a lookup of the user or a comparison of the
\* password) or was turned down on the shape of the username
Logged(w, t, check) ==
  LET cur == IF w.open /\ t - w.start <= LOGIN_LOCKOUT_TIME
               THEN w ELSE [open |-> TRUE, start |-> t, checks |-> 0]
  IN [cur EXCEPT !.checks = @ + (IF check THEN 1 ELSE 0)]

\* the log stops at this many failed credential checks in one window
MaxFailedChecks == MAX_ATTEMPTS + NumLogins

LoginIdle ==
  /\ loginAttempts = [ip \in LoginIps |-> NoAttempts]
  /\ login = [l \in Logins |-> IdleLogin]
  /\ failedChecks = [ip \in LoginIps |-> NoWindow]

otherVars == <<now, dbVars, rowLock, mails, attempt, req, del, trackingAttempts,
               sched, mailConfigured>>

\* lines 52-76: the rate limit check, the presence and the length checks, up
\* to the call of pool.query
LoginStart(l, ip, kind) ==
  /\ login[l].pc = "idle"
  /\ failedChecks[ip].checks < MaxFailedChecks
  /\ LET rec == loginAttempts[ip]
         allowed == checkRateLimit(rec, now)
         checked == AfterCheck(rec, now)
         base == [IdleLogin EXCEPT !.ip = ip, !.kind = kind]
     IN IF ~allowed
          THEN /\ login' = [login EXCEPT ![l] =
                              [base EXCEPT !.pc = "done", !.outcome = "refused"]]
               /\ loginAttempts' = [loginAttempts EXCEPT ![ip] = checked]
               /\ UNCHANGED failedChecks
        ELSE IF kind = "missing"
          THEN /\ login' = [login EXCEPT ![l] =
                              [base EXCEPT !.pc = "done", !.outcome = "missing"]]
               /\ loginAttempts' = [loginAttempts EXCEPT ![ip] = checked]
               /\ UNCHANGED failedChecks
        ELSE IF kind = "bad-username"
          THEN /\ login' = [login EXCEPT ![l] =
                              [base EXCEPT !.pc = "done", !.outcome = "invalid"]]
               /\ loginAttempts' = [loginAttempts EXCEPT ![ip] =
                                      recordFailedAttempt(checked, now)]
               /\ failedChecks' = [failedChecks EXCEPT ![ip] = Logged(@, now, FALSE)]
        ELSE /\ login' = [login EXCEPT ![l] = [base EXCEPT !.pc = "query"]]
             /\ loginAttempts' = [loginAttempts EXCEPT ![ip] = checked]
             /\ UNCHANGED failedChecks
  /\ UNCHANGED otherVars

\* lines 77-85: the SELECT of the user returns
LoginQuery(l) ==
  /\ login[l].pc = "query"
  /\ LET ip == login[l].ip
     IN IF login[l].kind = "unknown-user"
          THEN /\ login' = [login EXCEPT ![l] =
                              [@ EXCEPT !.pc = "done", !.outcome = "invalid"]]
               /\ loginAttempts' = [loginAttempts EXCEPT ![ip] =
                                      recordFailedAttempt(@, now)]
               /\ failedChecks' = [failedChecks EXCEPT ![ip] = Logged(@, now, TRUE)]
          ELSE /\ login' = [login EXCEPT ![l] = [@ EXCEPT !.pc = "compare"]]
               /\ UNCHANGED <<loginAttempts, failedChecks>>
  /\ UNCHANGED otherVars

\* lines 87-96: bcrypt.compare returns
LoginCompare(l) ==
  /\ login[l].pc = "compare"
  /\ LET ip == login[l].ip
     IN IF login[l].kind = "wrong-password"
          THEN /\ login' = [login EXCEPT ![l] =
                              [@ EXCEPT !.pc = "done", !.outcome = "invalid"]]
               /\ loginAttempts' = [loginAttempts EXCEPT ![ip] =
                                      recordFailedAttempt(@, now)]
               /\ failedChecks' = [failedChecks EXCEPT ![ip] = Logged(@, now, TRUE)]
          ELSE /\ login' = [login EXCEPT ![l] = [@ EXCEPT !.pc = "session"]]
               /\ loginAttempts' = [loginAttempts EXCEPT ![ip] = clearAttempts(@)]
               /\ UNCHANGED failedChecks
  /\ UNCHANGED otherVars

\* lines 98-108: the callback of req.session.regenerate
LoginSession(l, err) ==
  /\ login[l].pc = "session"
  /\ login' = [login EXCEPT ![l] =
                 [@ EXCEPT !.pc = "done", !.outcome = IF err THEN "error" ELSE "ok"]]
  /\ UNCHANGED <<loginAttempts, failedChecks, otherVars>>

\* lines 109-112: pool.query or bcrypt.compare rejects
LoginFail(l) ==
  /\ login[l].pc \in {"query", "compare"}
  /\ login' = [login EXCEPT ![l] = [@ EXCEPT !.pc = "done", !.outcome = "error"]]
  /\ UNCHANGED <<loginAttempts, failedChecks, otherVars>>

\* the response is sent; the slot takes the next request
LoginEnds(l) ==
  /\ login[l].pc = "done"
  /\ login' = [login EXCEPT ![l] = IdleLogin]
  /\ UNCHANGED <<loginAttempts, failedChecks, otherVars>>

\* the clock runs on by half a lockout (and a millisecond)
LoginElapse ==
  /\ now + (LOGIN_LOCKOUT_TIME \div 2) + 1 <= LOGIN_LOCKOUT_TIME + 2
  /\ now' = now + (LOGIN_LOCKOUT_TIME \div 2) + 1
  /\ UNCHANGED <<dbVars, rowLock, mails, attempt, req, del, trackingAttempts,
                 sched, mailConfigured, loginVars>>

(***************************************************************************)
(* routes/tracking.js: checkTrackingRateLimit                              *)
(***************************************************************************)
ClientIps == {"10.0.0.1"}
\* trackingAttempts.get(ip) === undefined
NoRecord == [count |-> 0, windowStart |-> 0, locked |-> FALSE]

\* variant whose window lets one request more through
RateCheck_OffByOne(rec, t) ==
  IF rec = NoRecord THEN "allowed"
  ELSE IF rec.locked /\ t - rec.windowStart < LOCKOUT_TIME THEN "lockedOut"
  ELSE IF t - rec.windowStart > RATE_LIMIT_WINDOW THEN "allowed"
  ELSE IF rec.count + 1 > LOCKOUT_THRESHOLD THEN "lockedOut"
  ELSE IF rec.count > MAX_REQUESTS_PER_WINDOW THEN "limited"
  ELSE "allowed"

\* the value checkTrackingRateLimit returns for the record of the address
RateCheck(rec, t) ==
  IF rec = NoRecord THEN "allowed"
  ELSE IF rec.locked /\ t - rec.windowStart < LOCKOUT_TIME THEN "lockedOut"
  ELSE IF t - rec.windowStart > RATE_LIMIT_WINDOW THEN "allowed"
  ELSE IF rec.count + 1 > LOCKOUT_THRESHOLD THEN "lockedOut"
  ELSE IF rec.count + 1 > MAX_REQUESTS_PER_WINDOW THEN "limited"
  ELSE "allowed"

\* the record of the address after the call
RateRecord(rec, t) ==
  IF rec = NoRecord THEN [count |-> 1, windowStart |-> t, locked |-> FALSE]
  ELSE IF rec.locked /\ t - rec.windowStart < LOCKOUT_TIME THEN rec
  ELSE IF t - rec.windowStart > RATE_LIMIT_WINDOW
    THEN [count |-> 1, windowStart |-> t, locked |-> FALSE]
  ELSE IF rec.count + 1 > LOCKOUT_THRESHOLD
    THEN [count |-> rec.count + 1, windowStart |-> t, locked |-> TRUE]
  ELSE [rec EXCEPT !.count = rec.count + 1]

(***************************************************************************)
(* routes/tracking.js: GET /track/:token/:employeeRef                      *)
(***************************************************************************)
IdleRequest ==
  [pc |-> "idle", ip |-> "", token |-> NULL, ref |-> NoRef, employeeId |-> NULL,
   sent_date |-> NULL, wage |-> NULL, conn |-> FALSE, locked |-> FALSE,
   ins |-> FALSE, upd |-> FALSE, outcome |-> "", wrote |-> FALSE, released |-> 0]

IdleDelete == [pc |-> "idle", employee_id |-> NULL, work_date |-> NULL, email_token |-> NULL]

\* variant that ignores the result of the rate limit check
BoundaryOutcome_NoRateLimit(rate, token, ref) ==
  IF ~isValidUUID(token) THEN "invalid-link-format"
  ELSE IF ~isValidEmployeeRef(ref) THEN "invalid-employee-reference"
  ELSE IF decodeEmployeeRef(ref, token) = NULL THEN "invalid-or-tampered-reference"
  ELSE ""

\* the outcome the synchronous prefix (lines 240-275) ends the request with,
\* "" if the request goes on to pool.connect()
BoundaryOutcome(rate, token, ref) ==
  IF rate = "lockedOut" THEN "locked-out"
  ELSE IF rate = "limited" THEN "rate-limited"
  ELSE IF ~isValidUUID(token) THEN "invalid-link-format"
  ELSE IF ~isValidEmployeeRef(ref) THEN "invalid-employee-reference"
  ELSE IF decodeEmployeeRef(ref, token) = NULL THEN "invalid-or-tampered-reference"
  ELSE ""

\* lines 240-277: rate limit, shape checks, decode, then pool.connect()
RedeemStart(r, ip, token, ref) ==
  /\ req[r].pc = "idle"
  /\ trackingAttempts' = [trackingAttempts EXCEPT ![ip] = RateRecord(@, now)]
  /\ LET out == BoundaryOutcome(RateCheck(trackingAttempts[ip], now), token, ref)
         base == [req[r] EXCEPT !.ip = ip, !.token = token, !.ref = ref]
     IN req' = [req EXCEPT ![r] =
          IF out # ""
            THEN [base EXCEPT !.pc = "done", !.outcome = out]
            ELSE [base EXCEPT !.pc = "connect",
                              !.employeeId = decodeEmployeeRef(ref, token)]]
  /\ UNCHANGED <<now, dbVars, rowLock, mails, attempt, del, sched, mailConfigured, loginVars>>

\* line 277: the pool hands out a client
RedeemConnect(r) ==
  /\ req[r].pc = "connect"
  /\ req' = [req EXCEPT ![r] = [@ EXCEPT !.pc = "begin", !.conn = TRUE]]
  /\ UNCHANGED <<now, dbVars, rowLock, mails, attempt, del, trackingAttempts, sched, mailConfigured, loginVars>>

\* line 281: BEGIN
RedeemBegin(r) ==
  /\ req[r].pc = "begin"
  /\ req' = [req EXCEPT ![r] = [@ EXCEPT !.pc = "lock"]]
  /\ UNCHANGED <<now, dbVars, rowLock, mails, attempt, del, trackingAttempts, sched, mailConfigured, loginVars>>

\* variant that reads the row without FOR UPDATE
RedeemLock_NoLock(r) ==
  /\ req[r].pc = "lock"
  /\ LET rows == {row \in daily_emails : row.token = req[r].token}
     IN IF rows = {}
          THEN req' = [req EXCEPT ![r] = [@ EXCEPT !.pc = "rollback", !.outcome = "link-not-found"]]
          ELSE req' = [req EXCEPT ![r] = [@ EXCEPT !.pc = "employee",
                         !.sent_date = (CHOOSE row \in rows : TRUE).sent_date]]
  /\ UNCHANGED <<now, dbVars, rowLock, mails, attempt, del, trackingAttempts, sched, mailConfigured, loginVars>>

\* lines 283-297: SELECT ... FROM daily_emails WHERE token = $1 FOR UPDATE;
\* the statement waits while another transaction holds the lock of the row
RedeemLock(r) ==
  /\ req[r].pc = "lock"
  /\ LET rows == {row \in daily_emails : row.token = req[r].token}
     IN IF rows = {}
          THEN /\ req' = [req EXCEPT ![r] = [@ EXCEPT !.pc = "rollback",
                                                      !.outcome = "link-not-found"]]
               /\ UNCHANGED rowLock
          ELSE /\ rowLock[req[r].token] = NULL
               /\ rowLock' = [rowLock EXCEPT ![req[r].token] = r]
               /\ req' = [req EXCEPT ![r] = [@ EXCEPT !.pc = "employee", !.locked = TRUE,
                            !.sent_date = (CHOOSE row \in rows : TRUE).sent_date]]
  /\ UNCHANGED <<now, dbVars, mails, attempt, del, trackingAttempts, sched, mailConfigured, loginVars>>

\* variant that does not look at the active column
RedeemEmployee_NoActiveCheck(r) ==
  /\ req[r].pc = "employee"
  /\ req' = [req EXCEPT ![r] =
       IF req[r].employeeId \notin EmployeeIds
         THEN [@ EXCEPT !.pc = "rollback", !.outcome = "employee-not-found"]
       ELSE [@ EXCEPT !.pc = "existing", !.wage = employees[req[r].employeeId].daily_wage]]
  /\ UNCHANGED <<now, dbVars, rowLock, mails, attempt, del, trackingAttempts, sched, mailConfigured, loginVars>>

\* lines 299-319: SELECT ... FROM employees WHERE id = $1, absent or inactive
RedeemEmployee(r) ==
  /\ req[r].pc = "employee"
  /\ req' = [req EXCEPT ![r] =
       IF req[r].employeeId \notin EmployeeIds
         THEN [@ EXCEPT !.pc = "rollback", !.outcome = "employee-not-found"]
       ELSE IF ~employees[req[r].employeeId].active
         THEN [@ EXCEPT !.pc = "rollback", !.outcome = "employee-inactive"]
       ELSE [@ EXCEPT !.pc = "existing", !.wage = employees[req[r].employeeId].daily_wage]]
  /\ UNCHANGED <<now, dbVars, rowLock, mails, attempt, del, trackingAttempts, sched, mailConfigured, loginVars>>

\* SELECT id FROM work_records WHERE employee_id = $1 AND work_date = $2
RecordsOf(e, d) == {w \in work_records : w.employee_id = e /\ w.work_date = d}

\* variant without the existence check
RedeemExisting_NoCheck(r) ==
  /\ req[r].pc = "existing"
  /\ req' = [req EXCEPT ![r] = [@ EXCEPT !.pc = "insert"]]
  /\ UNCHANGED <<now, dbVars, rowLock, mails, attempt, del, trackingAttempts, sched, mailConfigured, loginVars>>

\* lines 321-334: already registered for the date: success, nothing inserted
RedeemExisting(r) ==
  /\ req[r].pc = "existing"
  /\ req' = [req EXCEPT ![r] =
       IF RecordsOf(req[r].employeeId, req[r].sent_date) # {}
         THEN [@ EXCEPT !.pc = "rollback", !.outcome = "success"]
         ELSE [@ EXCEPT !.pc = "insert"]]
  /\ UNCHANGED <<now, dbVars, rowLock, mails, attempt, del, trackingAttempts, sched, mailConfigured, loginVars>>

\* variant that inserts through the pool: the row is stored at once
RedeemInsert_Autocommit(r) ==
  /\ req[r].pc = "insert"
  /\ work_records' = work_records \cup
       {[id |-> r, employee_id |-> req[r].employeeId, work_date |-> req[r].sent_date,
         wage_amount |-> req[r].wage, email_token |-> req[r].token]}
  /\ req' = [req EXCEPT ![r] = [@ EXCEPT !.pc = "update", !.ins = TRUE]]
  /\ UNCHANGED <<now, employees, recipients, daily_emails, rowLock, mails, attempt, del,
                 trackingAttempts, sched, mailConfigured, loginVars>>

\* lines 336-340: INSERT INTO work_records, pending until COMMIT
RedeemInsert(r) ==
  /\ req[r].pc = "insert"
  /\ req' = [req EXCEPT ![r] = [@ EXCEPT !.pc = "update", !.ins = TRUE]]
  /\ UNCHANGED <<now, dbVars, rowLock, mails, attempt, del, trackingAttempts, sched, mailConfigured, loginVars>>

\* lines 342-346: UPDATE daily_emails SET used = true, used_by_employee_id,
\* pending until COMMIT
RedeemUpdate(r) ==
  /\ req[r].pc = "update"
  /\ req' = [req EXCEPT ![r] = [@ EXCEPT !.pc = "commit", !.upd = TRUE]]
  /\ UNCHANGED <<now, dbVars, rowLock, mails, attempt, del, trackingAttempts, sched, mailConfigured, loginVars>>

\* the locks of request r are released
Unlock(r) == [t \in DOMAIN rowLock |-> IF rowLock[t] = r THEN NULL ELSE rowLock[t]]

\* variant that dates the row by the day of the click
NewRecord_ClickDay(r) ==
  [id |-> r, employee_id |-> req[r].employeeId, work_date |-> Today,
   wage_amount |-> req[r].wage, email_token |-> req[r].token]

\* the row the request inserts; SERIAL id: the rows of distinct requests differ
NewRecord(r) ==
  [id |-> r, employee_id |-> req[r].employeeId, work_date |-> req[r].sent_date,
   wage_amount |-> req[r].wage, email_token |-> req[r].token]

\* lines 348-353, 361-363: COMMIT, render success, release the client
RedeemCommit(r) ==
  /\ req[r].pc = "commit"
  /\ work_records' = IF req[r].ins THEN work_records \cup {NewRecord(r)} ELSE work_records
  /\ daily_emails' =
       IF req[r].upd
         THEN {IF row.token = req[r].token
                 THEN [row EXCEPT !.used = TRUE, !.used_by_employee_id = req[r].employeeId]
                 ELSE row : row \in daily_emails}
         ELSE daily_emails
  /\ rowLock' = Unlock(r)
  /\ req' = [req EXCEPT ![r] = [@ EXCEPT !.pc = "done", !.outcome = "success", !.conn = FALSE,
                                         !.locked = FALSE, !.ins = FALSE, !.upd = FALSE,
                                         !.wrote = TRUE, !.released = @ + 1]]
  /\ UNCHANGED <<now, employees, recipients, mails, attempt, del, trackingAttempts, sched, mailConfigured, loginVars>>

\* variant that gives the token back when the transaction is rolled back
RedeemRollback_ReleasesToken(r) ==
  /\ req[r].pc = "rollback"
  /\ rowLock' = Unlock(r)
  /\ daily_emails' = {IF row.token = req[r].token
                        THEN [row EXCEPT !.used = FALSE, !.used_by_employee_id = NULL]
                        ELSE row : row \in daily_emails}
  /\ req' = [req EXCEPT ![r] = [@ EXCEPT !.pc = "done", !.conn = FALSE, !.locked = FALSE,
                                         !.ins = FALSE, !.upd = FALSE, !.released = @ + 1]]
  /\ UNCHANGED <<now, employees, recipients, work_records, mails, attempt, del,
                 trackingAttempts, sched, mailConfigured, loginVars>>

\* variant whose failure paths return without releasing the client
RedeemRollback_NoRelease(r) ==
  /\ req[r].pc = "rollback"
  /\ rowLock' = Unlock(r)
  /\ req' = [req EXCEPT ![r] = [@ EXCEPT !.pc = "done", !.locked = FALSE,
                                         !.ins = FALSE, !.upd = FALSE]]
  /\ UNCHANGED <<now, dbVars, mails, attempt, del, trackingAttempts, sched, mailConfigured, loginVars>>

\* lines 291, 306, 315, 329, 356, 361-363: ROLLBACK, render, release the client
RedeemRollback(r) ==
  /\ req[r].pc = "rollback"
  /\ rowLock' = Unlock(r)
  /\ req' = [req EXCEPT ![r] = [@ EXCEPT !.pc = "done", !.conn = FALSE, !.locked = FALSE,
                                         !.ins = FALSE, !.upd = FALSE, !.released = @ + 1]]
  /\ UNCHANGED <<now, dbVars, mails, attempt, del, trackingAttempts, sched, mailConfigured, loginVars>>

\* lines 355-360: a statement of the transaction rejects, the catch rolls back
RedeemQueryFail(r) ==
  /\ req[r].pc \in {"begin", "lock", "employee", "existing", "insert", "update", "commit"}
  /\ req' = [req EXCEPT ![r] = [@ EXCEPT !.pc = "rollback", !.outcome = "unexpected-error"]]
  /\ UNCHANGED <<now, dbVars, rowLock, mails, attempt, del, trackingAttempts, sched, mailConfigured, loginVars>>

(***************************************************************************)
(* POST /records/:id/delete, the two versions of the handler               *)
(***************************************************************************)
\* UPDATE daily_emails ... WHERE sent_date = $1 AND used_by_employee_id = $2
ResetTargets(d, e) ==
  {row \in daily_emails : row.sent_date = d /\ row.used_by_employee_id = e}

\* routes/records.js 197-211: DELETE FROM work_records WHERE id = $1 RETURNING
DeleteRecord(w) ==
  /\ del.pc \in {"idle", "done"}
  /\ w \in work_records
  /\ work_records' = {x \in work_records : x.id # w.id}
  /\ del' = [pc |-> "reset", employee_id |-> w.employee_id, work_date |-> w.work_date,
             email_token |-> w.email_token]
  /\ UNCHANGED <<now, employees, recipients, daily_emails, rowLock, mails, attempt, req,
                 trackingAttempts, sched, mailConfigured, loginVars>>

\* variant that clears the flag and keeps the redeemer
DeleteRecordReset_KeepRedeemer ==
  /\ del.pc = "reset"
  /\ \A row \in ResetTargets(del.work_date, del.employee_id) : rowLock[row.token] = NULL
  /\ daily_emails' =
       {IF row \in ResetTargets(del.work_date, del.employee_id)
          THEN [row EXCEPT !.used = FALSE]
          ELSE row : row \in daily_emails}
  /\ del' = [del EXCEPT !.pc = "done"]
  /\ UNCHANGED <<now, employees, recipients, work_records, rowLock, mails, attempt, req,
                 trackingAttempts, sched, mailConfigured, loginVars>>

\* routes/records.js 213-222: the UPDATE waits for the row locks of the rows
\* it changes and then sets used = false, used_by_employee_id = NULL
DeleteRecordReset ==
  /\ del.pc = "reset"
  /\ \A row \in ResetTargets(del.work_date, del.employee_id) : rowLock[row.token] = NULL
  /\ daily_emails' =
       {IF row \in ResetTargets(del.work_date, del.employee_id)
          THEN [row EXCEPT !.used = FALSE, !.used_by_employee_id = NULL]
          ELSE row : row \in daily_emails}
  /\ del' = [del EXCEPT !.pc = "done"]
  /\ UNCHANGED <<now, employees, recipients, work_records, rowLock, mails, attempt, req,
                 trackingAttempts, sched, mailConfigured, loginVars>>

\* the later version of the handler (manual record management), lines
\* 347-362: the DELETE alone
DeleteRecordOnly(w) ==
  /\ del.pc \in {"idle", "done"}
  /\ w \in work_records
  /\ work_records' = {x \in work_records : x.id # w.id}
  /\ del' = [pc |-> "done", employee_id |-> w.employee_id, work_date |-> w.work_date,
             email_token |-> w.email_token]
  /\ UNCHANGED <<now, employees, recipients, daily_emails, rowLock, mails, attempt, req,
                 trackingAttempts, sched, mailConfigured, loginVars>>


(***************************************************************************)
(* Initial state: after initializeDatabase, with a roster and no dispatch  *)
(***************************************************************************)

Init ==
  /\ now = 0
  /\ employees = [e \in EmployeeIds |-> [active |-> TRUE, daily_wage |-> e]]
  /\ recipients = [r \in RecipientIds |-> [active |-> TRUE]]
  /\ daily_emails = {}
  /\ work_records = {}
  /\ rowLock = [t \in IssuedTokens |-> NULL]
  /\ mails = {}
  /\ attempt = [a \in AllAttempts |-> IdleAttempt]
  /\ req = [r \in Requests |-> IdleRequest]
  /\ del = IdleDelete
  /\ trackingAttempts = [ip \in ClientIps |-> NoRecord]
  /\ sched = [d \in Days |-> IdleCycle]
  /\ mailConfigured \in BOOLEAN
  /\ LoginIdle

NextDispatch ==
  \/ \E a \in Attempts : DispatchCheck(a)
  \/ \E a \in Attempts : DispatchEmployees(a)
  \/ \E a \in Attempts : DispatchRecipients(a)
  \/ \E a \in Attempts : DispatchInsert(a)
  \/ \E a \in Attempts : DispatchSend(a)
  \/ \E a \in Attempts : DispatchSendFail(a)
  \/ \E a \in Attempts : DispatchQueryFail(a)
  \/ \E e \in EmployeeIds : DeactivateEmployee(e)
  \/ \E r \in RecipientIds : ToggleRecipient(r)

SpecDispatch == Init /\ [][NextDispatch]_vars

(***************************************************************************)
(* The cron job alone, through the cycle of one day: the invocations of    *)
(* sendDailyEmail the cycle awaits, the roster and the clock               *)
(***************************************************************************)
NextScheduler ==
  \/ \E d \in Days : CronFire(d)
  \/ \E d \in Days : SchedResult(d)
  \/ \E d \in Days : TimerFire(d)
  \/ \E a \in SchedulerAttempts : Invoked(a) /\ DispatchCheck(a)
  \/ \E a \in SchedulerAttempts : Invoked(a) /\ DispatchEmployees(a)
  \/ \E a \in SchedulerAttempts : Invoked(a) /\ DispatchRecipients(a)
  \/ \E a \in SchedulerAttempts : Invoked(a) /\ DispatchInsert(a)
  \/ \E a \in SchedulerAttempts : Invoked(a) /\ DispatchSend(a)
  \/ \E a \in SchedulerAttempts : Invoked(a) /\ DispatchSendFail(a)
  \/ \E a \in SchedulerAttempts : Invoked(a) /\ DispatchQueryFail(a)
  \/ \E e \in EmployeeIds : DeactivateEmployee(e)
  \/ \E r \in RecipientIds : ToggleRecipient(r)
  \/ Tick

SpecScheduler == Init /\ [][NextScheduler]_vars

(***************************************************************************)
(* The cron job of one day together with POST /send-test-email, which      *)
(* calls sendTestEmail and through it sendDailyEmail; the queries answer, *)
(* the send may fail                                                       *)
(***************************************************************************)
NextOnDemand ==
  \/ \E d \in Days : CronFire(d)
  \/ \E d \in Days : SchedResult(d)
  \/ \E d \in Days : TimerFire(d)
  \/ \E a \in AllAttempts : (a \in Attempts \/ Invoked(a)) /\ DispatchCheck(a)
  \/ \E a \in AllAttempts : (a \in Attempts \/ Invoked(a)) /\ DispatchEmployees(a)
  \/ \E a \in AllAttempts : (a \in Attempts \/ Invoked(a)) /\ DispatchRecipients(a)
  \/ \E a \in AllAttempts : (a \in Attempts \/ Invoked(a)) /\ DispatchInsert(a)
  \/ \E a \in AllAttempts : (a \in Attempts \/ Invoked(a)) /\ DispatchSend(a)
  \/ \E a \in AllAttempts : (a \in Attempts \/ Invoked(a)) /\ DispatchSendFail(a)
  \/ Tick

SpecOnDemand == Init /\ [][NextOnDemand]_vars

(***************************************************************************)
(* The redemption machine, started after the first dispatch of day 1 went  *)
(* through: its row is stored and its message is sent                      *)
(***************************************************************************)
InitRedeem ==
  /\ now = 0
  /\ employees = [e \in EmployeeIds |-> [active |-> TRUE, daily_wage |-> e]]
  /\ recipients = [r \in RecipientIds |-> [active |-> TRUE]]
  /\ daily_emails = {[sent_date |-> 1, token |-> NewToken(1), used |-> FALSE,
                      used_by_employee_id |-> NULL]}
  /\ work_records = {}
  /\ rowLock = [t \in IssuedTokens |-> NULL]
  /\ mails = {[by |-> 1, date |-> 1, token |-> NewToken(1), to |-> RecipientIds,
               links |-> {LinkOf(NewToken(1), e) : e \in EmployeeIds}]}
  /\ attempt = [a \in AllAttempts |->
                  IF a = 1 THEN [IdleAttempt EXCEPT !.pc = "done", !.today = 1,
                                   !.token = NewToken(1), !.inserted = TRUE, !.sent = TRUE,
                                   !.result = MSG_SENT]
                           ELSE IdleAttempt]
  /\ req = [r \in Requests |-> IdleRequest]
  /\ del = IdleDelete
  /\ trackingAttempts = [ip \in ClientIps |-> NoRecord]
  /\ sched = [d \in Days |-> IdleCycle]
  /\ mailConfigured = TRUE
  /\ LoginIdle

\* the (token, employeeRef) pairs a request is made with: the mailed links
\* of the day and one more id, a signed reference of employee 1 long enough
\* for the pattern (id written with 7 digits), the same with another
\* signature, the same under another token, the signed reference as the
\* format describes it, and a link with an unissued and a malformed token
RequestInputs ==
  {<<NewToken(1), LegacyRef(e)>> : e \in 1..(NumEmployees + 1)} \cup
  {<<NewToken(1), PaddedSignedRef(NewToken(1), 1, 7)>>,
   <<NewToken(1), [PaddedSignedRef(NewToken(1), 1, 7) EXCEPT !.sig = ForgedSignature]>>,
   <<UnissuedToken, PaddedSignedRef(NewToken(1), 1, 7)>>,
   <<NewToken(1), SignedRef(NewToken(1), 1)>>,
   <<UnissuedToken, LegacyRef(1)>>,
   <<MalformedToken, LegacyRef(1)>>}

NextRedeem ==
  \/ \E r \in Requests, ip \in ClientIps, in \in RequestInputs :
       RedeemStart(r, ip, in[1], in[2])
  \/ \E r \in Requests : RedeemConnect(r)
  \/ \E r \in Requests : RedeemBegin(r)
  \/ \E r \in Requests : RedeemLock(r)
  \/ \E r \in Requests : RedeemEmployee(r)
  \/ \E r \in Requests : RedeemExisting(r)
  \/ \E r \in Requests : RedeemInsert(r)
  \/ \E r \in Requests : RedeemUpdate(r)
  \/ \E r \in Requests : RedeemCommit(r)
  \/ \E r \in Requests : RedeemRollback(r)
  \/ \E r \in Requests : RedeemQueryFail(r)
  \/ \E w \in work_records : DeleteRecord(w)
  \/ DeleteRecordReset
  \/ \E w \in work_records : DeleteRecordOnly(w)
  \/ \E e \in EmployeeIds : DeactivateEmployee(e)
  \/ NextDay

SpecRedeem == InitRedeem /\ [][NextRedeem]_vars

(***************************************************************************)
(* The boundary of the redemption route: requests from three addresses,    *)
(* one fresh, one that has used up the requests of its window, one at the  *)
(* lockout threshold (each made that many requests with a malformed token  *)
(* at time 0, which leave no other trace)                                  *)
(***************************************************************************)
RateIps == {"10.0.0.1", "10.0.0.2", "10.0.0.3"}

InitBoundary ==
  /\ now = 0
  /\ employees = [e \in EmployeeIds |-> [active |-> TRUE, daily_wage |-> e]]
  /\ recipients = [r \in RecipientIds |-> [active |-> TRUE]]
  /\ daily_emails = {[sent_date |-> 1, token |-> NewToken(1), used |-> FALSE,
                      used_by_employee_id |-> NULL]}
  /\ work_records = {}
  /\ rowLock = [t \in IssuedTokens |-> NULL]
  /\ mails = {[by |-> 1, date |-> 1, token |-> NewToken(1), to |-> RecipientIds,
               links |-> {LinkOf(NewToken(1), e) : e \in EmployeeIds}]}
  /\ attempt = [a \in AllAttempts |->
                  IF a = 1 THEN [IdleAttempt EXCEPT !.pc = "done", !.today = 1,
                                   !.token = NewToken(1), !.inserted = TRUE, !.sent = TRUE,
                                   !.result = MSG_SENT]
                           ELSE IdleAttempt]
  /\ req = [r \in Requests |-> IdleRequest]
  /\ del = IdleDelete
  /\ trackingAttempts =
       [ip \in RateIps |->
          CASE ip = "10.0.0.2" -> [count |-> MAX_REQUESTS_PER_WINDOW, windowStart |-> 0,
                                   locked |-> FALSE]
            [] ip = "10.0.0.3" -> [count |-> LOCKOUT_THRESHOLD, windowStart |-> 0,
                                   locked |-> FALSE]
            [] OTHER -> NoRecord]
  /\ sched = [d \in Days |-> IdleCycle]
  /\ mailConfigured = TRUE
  /\ LoginIdle

\* a mailed link, a malformed token, a reference of neither shape, a signed
\* reference with another signature
BoundaryInputs ==
  {<<NewToken(1), LegacyRef(1)>>,
   <<MalformedToken, LegacyRef(1)>>,
   <<NewToken(1), NoRef>>,
   <<NewToken(1), [PaddedSignedRef(NewToken(1), 1, 7) EXCEPT !.sig = ForgedSignature]>>}

NextBoundary ==
  \/ \E r \in Requests, ip \in RateIps, in \in BoundaryInputs :
       RedeemStart(r, ip, in[1], in[2])
  \/ \E r \in Requests : RedeemConnect(r)
  \/ \E r \in Requests : RedeemBegin(r)
  \/ \E r \in Requests : RedeemLock(r)
  \/ \E r \in Requests : RedeemEmployee(r)
  \/ \E r \in Requests : RedeemExisting(r)
  \/ \E r \in Requests : RedeemInsert(r)
  \/ \E r \in Requests : RedeemUpdate(r)
  \/ \E r \in Requests : RedeemCommit(r)
  \/ \E r \in Requests : RedeemRollback(r)
  \/ \E r \in Requests : RedeemQueryFail(r)

SpecBoundary == InitBoundary /\ [][NextBoundary]_vars

(***************************************************************************)
(* Redemption of the mailed links while the administrator edits the        *)
(* roster, from the state after the first dispatch of day 1                *)
(***************************************************************************)
NextRoster ==
  \/ \E r \in Requests, ip \in ClientIps, m \in mails :
       \E l \in m.links : RedeemStart(r, ip, l.token, l.ref)
  \/ \E r \in Requests : RedeemConnect(r)
  \/ \E r \in Requests : RedeemBegin(r)
  \/ \E r \in Requests : RedeemLock(r)
  \/ \E r \in Requests : RedeemEmployee(r)
  \/ \E r \in Requests : RedeemExisting(r)
  \/ \E r \in Requests : RedeemInsert(r)
  \/ \E r \in Requests : RedeemUpdate(r)
  \/ \E r \in Requests : RedeemCommit(r)
  \/ \E r \in Requests : RedeemRollback(r)
  \/ \E e \in EmployeeIds : DeactivateEmployee(e)
  \/ \E e \in EmployeeIds, w \in Wages, active \in BOOLEAN : UpdateEmployee(e, w, active)

SpecRoster == InitRedeem /\ [][NextRoster]_vars

(***************************************************************************)
(* The rate limit of the redemption route: requests of two addresses, one  *)
(* fresh, one locked out at time 0 by its 101st request, each turned away  *)
(* at the boundary at the latest (malformed token), while the clock runs.  The prefix of the handler up to pool.connect() has no      *)
(* await, so these requests run one at a time: one request is in the       *)
(* picture, and makes room for the next when it has been answered.         *)
(***************************************************************************)
LimitedIps == {"10.0.0.1", "10.0.0.2"}

\* the clock stops after a lockout and one window more
MaxClock == LOCKOUT_TIME + RATE_LIMIT_WINDOW + 1

InitRate ==
  /\ now = 0
  /\ employees = [e \in EmployeeIds |-> [active |-> TRUE, daily_wage |-> e]]
  /\ recipients = [r \in RecipientIds |-> [active |-> TRUE]]
  /\ daily_emails = {}
  /\ work_records = {}
  /\ rowLock = [t \in IssuedTokens |-> NULL]
  /\ mails = {}
  /\ attempt = [a \in AllAttempts |-> IdleAttempt]
  /\ req = [r \in Requests |-> IdleRequest]
  /\ del = IdleDelete
  /\ trackingAttempts =
       [ip \in LimitedIps |->
          IF ip = "10.0.0.2"
            THEN [count |-> LOCKOUT_THRESHOLD + 1, windowStart |-> 0, locked |-> TRUE]
            ELSE NoRecord]
  /\ sched = [d \in Days |-> IdleCycle]
  /\ mailConfigured = TRUE
  /\ LoginIdle

\* the response is out: the request is over
RequestEnds(r) ==
  /\ req[r].pc = "done"
  /\ req' = [req EXCEPT ![r] = IdleRequest]
  /\ UNCHANGED <<now, dbVars, rowLock, mails, attempt, del, trackingAttempts, sched,
                 mailConfigured, loginVars>>

\* time passes: a window and a millisecond, or the rest of a lockout
Elapse(dt) ==
  /\ now + dt <= MaxClock
  /\ now' = now + dt
  /\ UNCHANGED <<dbVars, rowLock, mails, attempt, req, del, trackingAttempts, sched,
                 mailConfigured, loginVars>>

NextRate ==
  \/ \E ip \in LimitedIps : RedeemStart(1, ip, MalformedToken, LegacyRef(1))
  \/ RequestEnds(1)
  \/ \E dt \in {RATE_LIMIT_WINDOW + 1, LOCKOUT_TIME - RATE_LIMIT_WINDOW - 1} : Elapse(dt)

SpecRate == InitRate /\ [][NextRate]_vars


(***************************************************************************)
(* POST /login alone: NumLogins requests in flight from one address        *)
(***************************************************************************)
NextLogin ==
  \/ \E l \in Logins : \E ip \in LoginIps : \E kind \in LoginKinds :
       LoginStart(l, ip, kind)
  \/ \E l \in Logins : LoginQuery(l)
  \/ \E l \in Logins : LoginCompare(l)
  \/ \E l \in Logins : \E err \in BOOLEAN : LoginSession(l, err)
  \/ \E l \in Logins : LoginFail(l)
  \/ \E l \in Logins : LoginEnds(l)
  \/ LoginElapse

\* the process after start, nothing stored and no login made
InitLogin == Init /\ mailConfigured = TRUE

SpecLogin == InitLogin /\ [][NextLogin]_vars

(***************************************************************************)
(* The whole system from the empty store: the dispatch job, and employees  *)
(* who click the links of the messages it has sent                         *)
(***************************************************************************)
Next ==
  \/ NextDispatch
  \/ \E r \in Requests, ip \in ClientIps, m \in mails :
       \E l \in m.links : RedeemStart(r, ip, l.token, l.ref)
  \/ \E r \in Requests : RedeemConnect(r)
  \/ \E r \in Requests : RedeemBegin(r)
  \/ \E r \in Requests : RedeemLock(r)
  \/ \E r \in Requests : RedeemEmployee(r)
  \/ \E r \in Requests : RedeemExisting(r)
  \/ \E r \in Requests : RedeemInsert(r)
  \/ \E r \in Requests : RedeemUpdate(r)
  \/ \E r \in Requests : RedeemCommit(r)
  \/ \E r \in Requests : RedeemRollback(r)
  \/ \E r \in Requests : RedeemQueryFail(r)

Spec == Init /\ [][Next]_vars

(***************************************************************************)
(* Claims about the dispatch job, checked under SpecDispatch               *)
(***************************************************************************)
NoAttemptRunning == \A a \in Attempts : attempt[a].pc \in {"idle", "done"}
MailsOfDay(d) == {m \in mails : m.date = d}

\* C1: whatever number of dispatch attempts run concurrently on one calendar
\* day, at most one daily_emails row of that day exists in every state.
C1_OneRecordPerDay == \A d \in Days : Cardinality(EmailsOfDay(d)) <= 1

\* C2: whatever number of dispatch attempts run concurrently on one calendar
\* day, sgMail.send is invoked (and accepted) at most once for that day.
C2_OneSendPerDay == \A d \in Days : Cardinality(MailsOfDay(d)) <= 1

\* C3: insert and send are atomic: whenever no attempt is running, a
\* daily_emails row exists only if the message carrying its token was sent,
\* so an attempt whose send failed has left no row behind.
C3_RecordOnlyIfSent ==
  NoAttemptRunning => \A row \in daily_emails : \E m \in mails : m.token = row.token

\* the step of attempt a ends the attempt with message msg, without a mail
\* and without a change of any table
AbortsWith(a, msg) ==
  /\ attempt'[a].pc = "done"
  /\ attempt'[a].result = msg
  /\ ~attempt'[a].inserted
  /\ ~attempt'[a].sent
  /\ UNCHANGED <<dbVars, mails>>

\* the step is one of attempt a at position pc whose query returned
QueryReturned(a, pc) ==
  /\ attempt[a].pc = pc
  /\ attempt'[a] # attempt[a]
  /\ attempt'[a].result # MSG_ERROR

\* C4: an attempt whose query finds a row of today, or no active employee,
\* or no active recipient, returns the not-sent result naming that reason,
\* sends no mail and leaves every table unchanged.
C4_PreconditionAborts ==
  [][\A a \in Attempts :
       /\ (QueryReturned(a, "idle") /\ EmailsOfDay(Today) # {})
             => AbortsWith(a, MSG_ALREADY)
       /\ (QueryReturned(a, "employees") /\ ActiveEmployees = {})
             => AbortsWith(a, MSG_NO_EMPLOYEES)
       /\ (QueryReturned(a, "recipients") /\ ActiveRecipients = {})
             => AbortsWith(a, MSG_NO_RECIPIENTS)]_vars

\* an attempt returned "already sent" while the other tables show the day's
\* row, and another attempt returned for want of employees or recipients
C4_Witness ==
  /\ \E a \in Attempts : attempt[a].pc = "done" /\ attempt[a].result = MSG_ALREADY
                          /\ EmailsOfDay(attempt[a].today) # {}
  /\ \E a \in Attempts : attempt[a].pc = "done"
                          /\ attempt[a].result \in {MSG_ALREADY, MSG_NO_EMPLOYEES, MSG_NO_RECIPIENTS}

(***************************************************************************)
(* Claims about the cron job, checked under SpecScheduler, and about the   *)
(* mail configuration and conflicting inserts, under SpecDispatch          *)
(***************************************************************************)
\* invocation a returned a failure the scheduler's message test lets through
FailedRetriably(a) ==
  /\ attempt[a].pc = "done"
  /\ ~attempt[a].sent
  /\ attempt[a].result \in {MSG_ERROR, MSG_UNAUTHORIZED}

C11_AtMostThree ==
  \A d \in Days :
    /\ Len(sched[d].starts) <= MAX_RETRIES
    /\ sched[d].attempt = Len(sched[d].starts)
    /\ \A a \in SchedulerAttempts :
         (attempt[a].pc # "idle" /\ \E k \in 1..MAX_RETRIES : a = Slot(d, k))
           => \E k \in 1..Len(sched[d].starts) : a = Slot(d, k)
    /\ \A k \in 2..Len(sched[d].starts) :
         /\ FailedRetriably(Slot(d, k - 1))
         /\ sched[d].starts[k] >= sched[d].starts[k - 1] + RETRY_DELAY_MS
    /\ sched[d].pc = "timer" =>
         /\ sched[d].attempt < MAX_RETRIES
         /\ FailedRetriably(Awaited(d))
         /\ sched[d].due >= sched[d].starts[sched[d].attempt] + RETRY_DELAY_MS

\* a cycle that has returned stays as it is
C11_GivesUp == \A d \in Days : sched[d].pc = "done" => sched'[d] = sched[d]

ResultStep(d) == sched[d].pc = "await" /\ sched'[d].pc # "await"

\* C12: when sendWithRetry takes the result of an attempt that ended as
\* already-sent, no-employees, no-recipients or for want of the mail
\* configuration (the send rejected as unauthorized), it schedules no further
\* attempt; when the attempt failed on a transient error and attempts are
\* left, it schedules one: the timer is set and the attempt number stays.
C12_RetriesExactlyTransient ==
  [][\A d \in Days :
       ResultStep(d) =>
         LET res == attempt[Awaited(d)].result
         IN /\ res \in {MSG_ALREADY, MSG_NO_EMPLOYEES, MSG_NO_RECIPIENTS, MSG_UNAUTHORIZED}
                 => sched'[d].pc = "done"
            /\ (res = MSG_ERROR /\ sched[d].attempt < MAX_RETRIES)
                 => /\ sched'[d].pc = "timer"
                    /\ sched'[d].attempt = sched[d].attempt
                    /\ sched'[d].due = now + RETRY_DELAY_MS]_vars

\* attempt k of the cycle of day d inserted its row and failed at the send
SendFailedAt(d, k) ==
  /\ attempt[Slot(d, k)].pc = "done"
  /\ attempt[Slot(d, k)].inserted
  /\ ~attempt[Slot(d, k)].sent

\* C13: when attempt k < 3 of a cycle failed at the mail-send and attempt
\* k + 1 has run with its queries answered, the roster unchanged and the
\* provider accepting, attempt k + 1 has sent the day's notification; it does
\* not abort on what attempt k left behind.
C13_RetryEffective ==
  \A d \in Days : \A k \in 1..(MAX_RETRIES - 1) :
    (mailConfigured /\ SendFailedAt(d, k) /\ attempt[Slot(d, k + 1)].pc = "done"
       /\ attempt[Slot(d, k + 1)].result \notin {MSG_ERROR, MSG_UNAUTHORIZED,
                                                  MSG_NO_EMPLOYEES, MSG_NO_RECIPIENTS})
    => /\ attempt[Slot(d, k + 1)].sent
       /\ MailsOfDay(attempt[Slot(d, k + 1)].today) # {}

\* C14: without the mail configuration no attempt inserts a daily_emails
\* row or reaches sgMail.send, and an attempt that is through reports a
\* message the scheduler does not retry (or the failure of one of its
\* queries).
C14_NotConfiguredAborts ==
  ~mailConfigured =>
    \A a \in Attempts :
      /\ ~attempt[a].inserted
      /\ attempt[a].pc # "send"
      /\ attempt[a].pc = "done" => (NonRetriable(attempt[a].result) \/ attempt[a].result = MSG_ERROR)

\* C15: an attempt whose INSERT meets a row of its day that a concurrent
\* attempt has inserted ends there: it adds no row, sends no mail and
\* returns the already-sent message, which the scheduler does not retry.
C15_ConflictIsAlreadySent ==
  [][\A a \in Attempts :
       (attempt[a].pc = "insert" /\ attempt'[a].pc # "insert"
          /\ attempt'[a].result # MSG_ERROR
          /\ EmailsOfDay(attempt[a].today) # {})
       => /\ attempt'[a].pc = "done"
          /\ attempt'[a].result = MSG_ALREADY
          /\ NonRetriable(attempt'[a].result)
          /\ ~attempt'[a].sent
          /\ UNCHANGED <<daily_emails, mails>>]_vars

\* C24: every link of a sent message carries the token of the message's
\* daily_emails row and the signed reference of (token, employee), one link
\* per employee.
C24_LinksSigned ==
  \A m \in mails :
    /\ \E row \in daily_emails : row.token = m.token /\ row.sent_date = m.date
    /\ \A l \in m.links : l.token = m.token /\ l.ref = SignedRef(l.token, l.emp)
    /\ \A l1, l2 \in m.links : l1.emp = l2.emp => l1 = l2

\* C27: for every message sgMail.send accepted, the daily_emails row with
\* the token of the message, the token of each of its links, is stored.
C27_SentTokenStored ==
  \A m \in mails :
    \E row \in daily_emails : /\ row.token = m.token
                              /\ row.sent_date = m.date
                              /\ \A l \in m.links : l.token = row.token

\* a message is out and another attempt is still before its INSERT
C27_Witness ==
  /\ mails # {}
  /\ \E a \in Attempts : attempt[a].pc \in {"insert", "send"}

\* the message of today was sent by the other kind of caller than a
OtherCallerSent(a) ==
  \E m \in MailsOfDay(Today) : (m.by \in Attempts) # (a \in Attempts)

\* C26: sendTestEmail and the cron job run the same sendDailyEmail against the
\* same table: an invocation by one of them that starts on a day on which
\* the other has sent the notification finds the row of that day and returns
\* already-sent, storing and sending nothing.
C26_OnDemandSameDispatch ==
  [][\A a \in AllAttempts :
       (QueryReturned(a, "idle") /\ OtherCallerSent(a)) => AbortsWith(a, MSG_ALREADY)]_vars

\* the cron job has sent and an on-demand invocation returned already-sent
C26_Witness ==
  \E a \in Attempts : \E b \in SchedulerAttempts :
    /\ attempt[b].sent
    /\ attempt[a].pc = "done" /\ attempt[a].result = MSG_ALREADY /\ ~attempt[a].inserted

(***************************************************************************)
(* Claims about the redemption machine, checked under SpecRedeem           *)
(***************************************************************************)
Succeeded(r) == req[r].pc = "done" /\ req[r].outcome = "success"

\* a record a redemption inserted for (e, d) is gone: an administrator
\* deleted it
Deleted(e, d) ==
  \E r \in Requests : /\ req[r].wrote
                      /\ req[r].employeeId = e
                      /\ req[r].sent_date = d
                      /\ \A w \in work_records : w.id # r

SameLink(r1, r2) == req[r1].token = req[r2].token /\ req[r1].ref = req[r2].ref

\* C5: two requests with the same valid (token, employeeRef), one after the
\* other or concurrently, both report success, leave exactly one work_records
\* row for the employee and the dispatch date, and at most one of them wrote
\* (as long as no administrator deleted the row).
C5_RedeemTwiceOneRecord ==
  \A r1, r2 \in Requests :
    (r1 # r2 /\ Succeeded(r1) /\ Succeeded(r2) /\ SameLink(r1, r2)
       /\ ~Deleted(req[r1].employeeId, req[r1].sent_date))
    => /\ Cardinality(RecordsOf(req[r1].employeeId, req[r1].sent_date)) = 1
       /\ ~(req[r1].wrote /\ req[r2].wrote)

\* both requests of one link are through: one wrote, the other reported
\* success without writing
C5_Witness ==
  \E r1, r2 \in Requests :
    /\ r1 # r2 /\ Succeeded(r1) /\ Succeeded(r2) /\ SameLink(r1, r2)
    /\ req[r1].wrote /\ ~req[r2].wrote
    /\ Cardinality(RecordsOf(req[r1].employeeId, req[r1].sent_date)) = 1

\* a signed reference of accepted shape whose signature part is not the
\* signature of (token, id part)
Tampered(ref, token) ==
  /\ ref.kind = "b64"
  /\ SignedShape(ref)
  /\ ref.id > 0
  /\ ref.sig # Hmac(token, ref.id)

\* C6: a request with a well-formed token and a reference whose signature
\* part was altered, once past the rate limit, ends as invalid-or-tampered
\* reference at the boundary: it takes no client, inserts no work_records row
\* and leaves no pending change of a daily_emails row.
C6_TamperedRejected ==
  \A r \in Requests :
    (req[r].pc # "idle" /\ isValidUUID(req[r].token) /\ Tampered(req[r].ref, req[r].token)
       /\ req[r].outcome \notin {"rate-limited", "locked-out"})
    => /\ req[r].pc = "done"
       /\ req[r].outcome = "invalid-or-tampered-reference"
       /\ ~req[r].wrote /\ ~req[r].conn /\ ~req[r].ins /\ ~req[r].upd
       /\ \A w \in work_records : w.id # r

C6_Witness ==
  \E r \in Requests :
    /\ req[r].pc = "done"
    /\ Tampered(req[r].ref, req[r].token)
    /\ req[r].outcome = "invalid-or-tampered-reference"

\* the reference check of the request accepted the reference
Accepted(r) == req[r].pc # "idle" /\ req[r].employeeId # NULL

\* C7: an accepted reference is bound to its (token, employee) pair: it
\* carries the signature of exactly the token and the employee it is
\* accepted for, so it is accepted under no other token and for no other
\* employee.
C7_ReferenceBound ==
  /\ \A r1, r2 \in Requests :
       (Accepted(r1) /\ Accepted(r2) /\ req[r1].ref = req[r2].ref)
         => req[r1].token = req[r2].token
  /\ \A r \in Requests :
       Accepted(r) => req[r].ref.sig = Hmac(req[r].token, req[r].employeeId)

\* the request is past its SELECT ... FOR UPDATE with the row in hand
PastLock(r) == req[r].pc \in {"employee", "existing", "insert", "update", "commit"}

C8_Serialized ==
  \A r1, r2 \in Requests :
    (r1 # r2 /\ req[r1].token = req[r2].token) => ~(PastLock(r1) /\ PastLock(r2))

C8_BothRecorded ==
  \A r1, r2 \in Requests :
    (r1 # r2 /\ Succeeded(r1) /\ Succeeded(r2) /\ req[r1].token = req[r2].token
       /\ req[r1].employeeId # req[r2].employeeId
       /\ ~Deleted(req[r1].employeeId, req[r1].sent_date)
       /\ ~Deleted(req[r2].employeeId, req[r2].sent_date))
    => /\ Cardinality(RecordsOf(req[r1].employeeId, req[r1].sent_date)) = 1
       /\ Cardinality(RecordsOf(req[r2].employeeId, req[r2].sent_date)) = 1

\* the COMMIT of request r
CommitStep(r) == req[r].pc = "commit" /\ req'[r].pc = "done"

C8_LastCommitter ==
  \A r \in Requests :
    CommitStep(r) =>
      /\ NewRecord(r) \in work_records'
      /\ \E row \in daily_emails' : /\ row.token = req[r].token
                                    /\ row.used
                                    /\ row.used_by_employee_id = req[r].employeeId

\* C8: redemptions of one token by different employees serialize on the row
\* lock (never two of them past the lock), each that succeeds leaves the
\* employee's own work_records row, and every commit leaves the daily_emails
\* row used with used_by_employee_id the committing employee, so the row
\* names the redeemer that committed last.
C8_ConcurrentEmployees ==
  /\ []C8_Serialized
  /\ []C8_BothRecorded
  /\ [][C8_LastCommitter]_vars

\* two employees redeemed the token, both wrote, the row names one of them
C8_Witness ==
  \E r1, r2 \in Requests :
    /\ r1 # r2 /\ Succeeded(r1) /\ Succeeded(r2) /\ req[r1].token = req[r2].token
    /\ req[r1].employeeId # req[r2].employeeId
    /\ req[r1].wrote /\ req[r2].wrote
    /\ NewRecord(r1) \in work_records /\ NewRecord(r2) \in work_records
    /\ \E row \in daily_emails : /\ row.token = req[r1].token /\ row.used
                                 /\ row.used_by_employee_id = req[r2].employeeId

\* C10: when the deletion of a work_records row that a redemption created
\* (email_token set) is through, the daily_emails row of that token has
\* used = false and used_by_employee_id = NULL.
C10_DeleteResetsToken ==
  [][(del.pc # "done" /\ del'.pc = "done" /\ del'.email_token # NULL)
       => \A row \in daily_emails' :
            row.token = del'.email_token
              => (~row.used /\ row.used_by_employee_id = NULL)]_vars

\* C16: whenever no deletion is between its two statements, a daily_emails
\* row has used = true exactly when a work_records row created by redeeming
\* its token exists, and then used_by_employee_id names an employee who has
\* such a row.
C16_UsedReflectsReality ==
  del.pc # "reset" =>
    \A row \in daily_emails :
      /\ row.used <=> (\E w \in work_records : w.email_token = row.token)
      /\ row.used => \E w \in work_records : /\ w.email_token = row.token
                                              /\ w.employee_id = row.used_by_employee_id

\* the outcomes of a request that fails after pool.connect()
StorageFailures ==
  {"link-not-found", "employee-not-found", "employee-inactive", "unexpected-error"}

\* the step stores the work_records row of request r
InsertVisible(r) == \E w \in work_records' \ work_records : w.id = r

C17_FailureWritesNothing ==
  \A r \in Requests :
    /\ (req[r].pc = "done" /\ req[r].outcome \in StorageFailures)
         => (~req[r].wrote /\ \A w \in work_records : w.id # r)
    /\ (\E w \in work_records : w.id = r) => req[r].wrote

C17_AllOrNothing ==
  \A r \in Requests :
    req'[r] # req[r] =>
      /\ req'[r].outcome \in StorageFailures => UNCHANGED <<work_records, daily_emails>>
      /\ InsertVisible(r) =>
           \E row \in daily_emails' : /\ row.token = req[r].token
                                      /\ row.used
                                      /\ row.used_by_employee_id = req[r].employeeId
      /\ daily_emails' # daily_emails => InsertVisible(r)

\* C17: a request that ends as link-not-found, employee-not-found,
\* employee-inactive or unexpected-error has stored no work_records row and
\* none of its steps changes work_records or daily_emails; the step of a
\* request that stores its work_records row is the step that leaves the
\* daily_emails row used by its employee, and no step of a request changes
\* daily_emails without storing the row.
C17_FailureAtomic == []C17_FailureWritesNothing /\ [][C17_AllOrNothing]_vars

\* a request has failed on an error and stored nothing, while another is
\* about to roll back its pending INSERT and UPDATE
C17_Witness ==
  \E r1, r2 \in Requests :
    /\ req[r1].pc = "done" /\ req[r1].outcome = "unexpected-error"
    /\ \A w \in work_records : w.id # r1
    /\ req[r2].pc = "rollback" /\ req[r2].ins /\ req[r2].upd

(***************************************************************************)
(* Claims about the boundary of the redemption route, under SpecBoundary   *)
(***************************************************************************)
BoundaryRejections ==
  {"locked-out", "rate-limited", "invalid-link-format", "invalid-employee-reference",
   "invalid-or-tampered-reference"}

\* the request record q is over the limit of its address at the time of the
\* step, or has a malformed token, a malformed reference or a tampered one
Rejectable(q) ==
  \/ RateCheck(trackingAttempts[q.ip], now) # "allowed"
  \/ ~isValidUUID(q.token)
  \/ ~isValidEmployeeRef(q.ref)
  \/ Tampered(q.ref, q.token)

C18_RejectedAtOnce ==
  \A r \in Requests :
    (req[r].pc = "idle" /\ req'[r].pc # "idle" /\ Rejectable(req'[r]))
    => /\ req'[r].pc = "done"
       /\ req'[r].outcome \in BoundaryRejections
       /\ ~req'[r].conn /\ ~req'[r].locked
       /\ UNCHANGED <<dbVars, rowLock>>

C18_RejectedHoldsNothing ==
  \A r \in Requests :
    req[r].outcome \in BoundaryRejections
    => /\ req[r].pc = "done"
       /\ ~req[r].conn /\ ~req[r].locked /\ ~req[r].ins /\ ~req[r].upd /\ ~req[r].wrote
       /\ \A t \in DOMAIN rowLock : rowLock[t] # r

C18_DoneIsFinal == \A r \in Requests : req[r].pc = "done" => req'[r] = req[r]

\* C18: a request over the rate limit, or with a malformed token, a
\* malformed employeeRef or a tampered one, ends in its first step with the
\* matching rejection: it takes no client, opens no transaction, locks no
\* row, changes no table, and never runs again.
C18_NoStorageOnRejection ==
  /\ [][C18_RejectedAtOnce]_vars
  /\ []C18_RejectedHoldsNothing
  /\ [][C18_DoneIsFinal]_vars

\* one request was turned away by the rate limit and another for its shape
C18_Witness ==
  \E r1, r2 \in Requests :
    /\ req[r1].pc = "done" /\ req[r1].outcome \in {"rate-limited", "locked-out"}
    /\ req[r2].pc = "done"
    /\ req[r2].outcome \in {"invalid-link-format", "invalid-employee-reference",
                            "invalid-or-tampered-reference"}

(***************************************************************************)
(* Claims about redemption under roster changes, checked under SpecRoster  *)
(***************************************************************************)
\* the step in which request r gets the answer of its employee lookup
EmployeeStep(r) == req[r].pc = "employee" /\ req'[r].pc # "employee"

C19_CheckedAtRedemption ==
  \A r \in Requests :
    (EmployeeStep(r) /\ req[r].employeeId \in EmployeeIds) =>
      IF employees[req[r].employeeId].active
        THEN req'[r].pc = "existing"
        ELSE req'[r].pc = "rollback" /\ req'[r].outcome = "employee-inactive"

C19_InactiveWritesNothing ==
  \A r \in Requests :
    /\ req[r].outcome = "employee-inactive"
         => (~req[r].ins /\ ~req[r].upd /\ ~req[r].wrote /\ \A w \in work_records : w.id # r)
    /\ req[r].pc \in {"existing", "insert", "update", "commit"} => req[r].outcome = ""
    /\ (req[r].pc = "done" /\ req[r].outcome # "success") => req[r].outcome = "employee-inactive"

\* C19: the lookup of the request decides on the active column as it is at
\* that moment, whatever it was at the dispatch: inactive, the request ends
\* as employee-inactive and stores nothing; active (also active again), the
\* request goes on and, its queries answered, succeeds.
C19_ActiveAtRedemption == [][C19_CheckedAtRedemption]_vars /\ []C19_InactiveWritesNothing

\* the link failed while the employee was inactive and, the employee active
\* again, a later request with the same link wrote the record
C19_Witness ==
  \E r1, r2 \in Requests :
    /\ r1 # r2 /\ SameLink(r1, r2)
    /\ req[r1].pc = "done" /\ req[r1].outcome = "employee-inactive"
    /\ Succeeded(r2) /\ req[r2].wrote
    /\ NewRecord(r2) \in work_records

C20_ReadsCurrentWage ==
  \A r \in Requests :
    /\ (EmployeeStep(r) /\ req'[r].pc = "existing")
         => req'[r].wage = employees[req[r].employeeId].daily_wage
    /\ req[r].wage # NULL => req'[r].wage = req[r].wage

C20_RecordsKeepWage ==
  \A w \in work_records : \A x \in work_records' : x.id = w.id => x.wage_amount = w.wage_amount

C20_RecordCarriesReadWage == \A w \in work_records : w.wage_amount = req[w.id].wage

\* C20: the work_records row of a redemption carries the daily_wage the
\* request read from the employee's row, and no step, an update of the
\* employee least of all, changes the wage_amount of a stored row.
C20_WageSnapshot ==
  /\ [][C20_ReadsCurrentWage]_vars
  /\ [][C20_RecordsKeepWage]_vars
  /\ []C20_RecordCarriesReadWage

\* a stored row whose wage_amount is no longer the employee's daily_wage
C20_Witness ==
  \E w \in work_records :
    /\ w.wage_amount # employees[w.employee_id].daily_wage
    /\ w.wage_amount = req[w.id].wage

(***************************************************************************)
(* Claims about the token's state, the signed reference, the stored row    *)
(* and the pooled client, checked under SpecRedeem                         *)
(***************************************************************************)
\* the daily_emails row of token t after the step is used
StillUsed(t) == \E row \in daily_emails' : row.token = t /\ row.used

\* the step is the UPDATE of the records.js delete handler
ResetStep == del.pc = "reset" /\ del'.pc = "done"

\* C21: once a daily_emails row has used = true, no step returns it to
\* used = false.
C21_UsedIsTerminal ==
  [][\A row \in daily_emails : row.used => StillUsed(row.token)]_vars

\* C21 as amended: a row with used = true returns to used = false only by the
\* UPDATE of the records.js delete handler, for a row that handler targets.
C21_UsedClearedOnlyByDelete ==
  [][\A row \in daily_emails :
       row.used => \/ StillUsed(row.token)
                   \/ ResetStep /\ row \in ResetTargets(del.work_date, del.employee_id)]_vars

\* the token is used and a later request with it has ended on an error,
\* rolled back
C21_Witness ==
  \E row \in daily_emails : \E r1, r2 \in Requests :
    /\ row.used
    /\ req[r1].wrote /\ req[r1].token = row.token
    /\ req[r2].pc = "done" /\ req[r2].token = row.token
    /\ req[r2].outcome = "unexpected-error" /\ req[r2].released = 1

\* C22: every daily_emails row has either used = false and
\* used_by_employee_id NULL, or used = true and used_by_employee_id the id of
\* an employee.
C22_UsedAndRedeemerAgree ==
  \A row \in daily_emails :
    \/ ~row.used /\ row.used_by_employee_id = NULL
    \/ row.used /\ row.used_by_employee_id \in EmployeeIds

\* a row went through both states: redeemed, then reset by the deletion of
\* the redeemer's record
C22_Witness ==
  \E row \in daily_emails :
    /\ ~row.used /\ row.used_by_employee_id = NULL
    /\ del.pc = "done" /\ del.email_token = row.token
    /\ \E r \in Requests : req[r].wrote /\ req[r].token = row.token

\* C23: a request past the rate limit whose employeeRef is the signed
\* reference base64url(e ":" truncatedHMAC(T ":" e)) of its token T and a
\* positive id e has a reference that passes isValidEmployeeRef and that
\* decodeEmployeeRef decodes to e.
C23_SignedRefRoundTrip ==
  \A r \in Requests : \A e \in EmployeeIds :
    (req[r].pc # "idle" /\ isValidUUID(req[r].token)
       /\ req[r].ref = SignedRef(req[r].token, e)
       /\ req[r].outcome \notin {"rate-limited", "locked-out"})
    => /\ isValidEmployeeRef(req[r].ref)
       /\ decodeEmployeeRef(req[r].ref, req[r].token) = e
       /\ req[r].employeeId = e

\* C28: every work_records row a redemption stored has the sent_date of the
\* daily_emails row of the request's token as work_date, whatever the day of
\* the request, the employee id decoded from the request's reference as
\* employee_id, and the request's token as email_token.
C28_RecordFields ==
  \A w \in work_records :
    /\ \E row \in daily_emails : row.token = w.email_token /\ row.sent_date = w.work_date
    /\ w.email_token = req[w.id].token
    /\ w.employee_id = decodeEmployeeRef(req[w.id].ref, req[w.id].token)

\* a row stored by a request made on a later day than the dispatch
C28_Witness ==
  \E w \in work_records :
    /\ w.work_date < Today
    /\ \E row \in daily_emails : row.token = w.email_token /\ row.sent_date = w.work_date

\* the request holds a client
InTransaction(r) ==
  req[r].pc \in {"begin", "lock", "employee", "existing", "insert", "update", "commit",
                 "rollback"}

C29_HeldThenReleased ==
  \A r \in Requests :
    /\ InTransaction(r) => (req[r].conn /\ req[r].released = 0)
    /\ (req[r].pc = "done" /\ req[r].outcome \notin BoundaryRejections)
         => /\ ~req[r].conn /\ req[r].released = 1
            /\ ~req[r].ins /\ ~req[r].upd /\ ~req[r].locked
            /\ \A t \in DOMAIN rowLock : rowLock[t] # r
    /\ (req[r].pc \in {"idle", "connect"} \/ req[r].outcome \in BoundaryRejections)
         => (~req[r].conn /\ req[r].released = 0)

C29_ReleaseEndsTransaction ==
  \A r \in Requests :
    req'[r].released # req[r].released
    => /\ req[r].pc \in {"commit", "rollback"}
       /\ req'[r].released = req[r].released + 1
       /\ req'[r].pc = "done"
       /\ ~req'[r].ins /\ ~req'[r].upd

\* C29: a request holds its client from pool.connect() to the end of its
\* transaction and has released it exactly once when it is through, on the
\* success path and on every failure path; the release comes with the COMMIT
\* or the ROLLBACK, after which nothing of the transaction is pending and no
\* row lock is held.
C29_ClientReleasedOnce == []C29_HeldThenReleased /\ [][C29_ReleaseEndsTransaction]_vars

\* a request is through after its COMMIT and another after a ROLLBACK
C29_Witness ==
  \E r1, r2 \in Requests :
    /\ Succeeded(r1) /\ req[r1].wrote /\ req[r1].released = 1
    /\ req[r2].pc = "done" /\ req[r2].outcome \in StorageFailures /\ req[r2].released = 1

(***************************************************************************)
(* Claims about the rate limit of the redemption route, under SpecRate     *)
(***************************************************************************)
\* request r enters the handler in this step, from address ip
Arrives(r, ip) == req[r].pc = "idle" /\ req'[r].pc # "idle" /\ req'[r].ip = ip

\* the rate check let the request of this step through
PassedRateCheck(r) == req'[r].outcome \notin {"rate-limited", "locked-out"}

\* the record of the address shows an open window at time t
InWindow(rec, t) == rec # NoRecord /\ ~rec.locked /\ t - rec.windowStart <= RATE_LIMIT_WINDOW

\* the record of the address shows a lockout that is on at time t
LockedAt(rec, t) == rec # NoRecord /\ rec.locked /\ t - rec.windowStart < LOCKOUT_TIME

C25_WindowAndLockout ==
  \A r \in Requests : \A ip \in DOMAIN trackingAttempts :
    Arrives(r, ip) =>
      LET old == trackingAttempts[ip]
          new == trackingAttempts'[ip]
      IN /\ InWindow(old, now) =>
              /\ new.count = old.count + 1
              /\ PassedRateCheck(r) <=> new.count <= MAX_REQUESTS_PER_WINDOW
              /\ new.count > LOCKOUT_THRESHOLD
                   => (new.locked /\ new.windowStart = now
                         /\ req'[r].outcome = "locked-out")
              /\ new.count <= LOCKOUT_THRESHOLD
                   => (~new.locked /\ new.windowStart = old.windowStart)
         /\ LockedAt(old, now) => (req'[r].outcome = "locked-out" /\ new = old)
         /\ (~InWindow(old, now) /\ ~LockedAt(old, now))
              => (PassedRateCheck(r) /\ new = [count |-> 1, windowStart |-> now,
                                               locked |-> FALSE])
         /\ \A other \in DOMAIN trackingAttempts \ {ip} :
              trackingAttempts'[other] = trackingAttempts[other]

C25_OnlyRequestsCount ==
  (\A r \in Requests : req[r].pc # "idle" \/ req'[r].pc = "idle")
    => trackingAttempts' = trackingAttempts

\* C25: every request of an address within its open window (60 seconds from
\* the window's start) is counted, and it passes the rate check exactly when
\* it is one of the first 30 of the window; the request that makes more than
\* 100 in the window locks the address, and every request of the address in
\* the 15 minutes from then is refused; a request outside a window and a
\* lockout opens a new window; the record of an address changes only by a
\* request of that address.
C25_RateLimit == [][C25_WindowAndLockout]_vars /\ [][C25_OnlyRequestsCount]_vars

\* the fresh address has been locked out, a window later its request is
\* still refused, and the other address is as it was
C25_Witness ==
  /\ trackingAttempts["10.0.0.1"].locked
  /\ now - trackingAttempts["10.0.0.1"].windowStart > RATE_LIMIT_WINDOW
  /\ req[1].pc = "done" /\ req[1].ip = "10.0.0.1" /\ req[1].outcome = "locked-out"
  /\ trackingAttempts["10.0.0.2"].locked

(***************************************************************************)
(* Claims about the login rate limit, under SpecLogin                      *)
(***************************************************************************)
\* the window opened by the first failed attempt of the address is running
WindowRunning(ip) ==
  failedChecks[ip].open /\ now - failedChecks[ip].start <= LOGIN_LOCKOUT_TIME

\* no window holds more than MAX_ATTEMPTS failed credential checks
C30_AtMostFiveFailedChecks ==
  \A ip \in LoginIps : failedChecks[ip].checks <= MAX_ATTEMPTS

\* once MAX_ATTEMPTS failures are recorded, no credentials are checked for
\* the address while the window runs
C30_NoCheckOnceFive ==
  \A l \in Logins :
    (/\ login[l].pc \in {"idle", "query", "compare"}
     /\ login'[l] # login[l]
     /\ login'[l].pc # "idle"
     /\ WindowRunning(login'[l].ip)
     /\ loginAttempts[login'[l].ip].count >= MAX_ATTEMPTS)
      => /\ login'[l].outcome \in {"refused", "error"}
         /\ failedChecks' = failedChecks

\* C30: for each client address at most 5 failed credential checks happen
\* within the 15 minutes from the first failed attempt, whatever the
\* interleaving of the concurrent login requests of the address, and once 5
\* failures are recorded every further login of the address is refused
\* without a credential check until the window ends.
C30_LoginRateLimit ==
  []C30_AtMostFiveFailedChecks /\ [][C30_NoCheckOnceFive]_vars

(***************************************************************************)
(* Claims about dispatch and redemption together, checked under Spec       *)
(***************************************************************************)
\* C9: in every state, whatever tokens concurrent redemptions carry, at most
\* one work_records row created by a redemption (email_token set) exists per
\* (employee_id, work_date).
C9_OneRecordPerEmployeeDay ==
  \A e \in EmployeeIds, d \in Days :
    Cardinality({w \in RecordsOf(e, d) : w.email_token # NULL}) <= 1

====
